---- MODULE Spec2Model ----
(***************************************************************************)
(* A model of the stylist vector store: the in-memory store of            *)
(* src/src/embedding.rs (records, length-based id assignment, cosine      *)
(* ranking), the coordinator of src/src/store.rs (save / load of both     *)
(* stores) and the request handlers of src/src/routes.rs (locking).       *)
(*                                                                         *)
(* f64 values are modelled by small integers: every vector component is   *)
(* an integer, and a similarity score dot / (|a| * |b|) is kept as the    *)
(* exact pair (dot, |a|^2 * |b|^2) and compared by cross multiplication.  *)
(***************************************************************************)
EXTENDS Integers, Sequences, FiniteSets, TLC

(***************************************************************************)
(* Bounds of the model.                                                    *)
(***************************************************************************)
\* the largest number of records a store holds in the model
MaxEntries == 2

(***************************************************************************)
(* Program constants.                                                      *)
(***************************************************************************)
\* InMemoryVectorStore::new(30, vec![], prompts, 2)
DIMENSIONS == 30
PROMPT_SIZE == 2

(***************************************************************************)
(* Input domains.                                                          *)
(***************************************************************************)
\* caller-supplied record names
Names == {"a", "b"}
\* caller-supplied description lists
Descriptions == {<<"d">>}
\* raw inputs (images); the embedding capability maps each to a vector
Images == {"east", "diag", "west", "blank"}
\* the images callers store (add, edit); a search may use any image
Uploads == {"east", "blank"}
\* the top_n values a search is called with
TopNs == {0, 1, 2}

\* the vector the embedding capability produces for an image (the model
\* keeps the first two of the store's components)
Embed(image) ==
    CASE image = "east"  -> <<1, 0>>
      [] image = "diag" -> <<1, 1>>
      [] image = "west"  -> <<-1, 0>>
      [] OTHER           -> <<0, 0>>

(***************************************************************************)
(* Results.                                                                *)
(***************************************************************************)
OK == "Ok"
NoDataWasFound == "NoDataWasFound"
EmbeddingFailure == "EmbeddingFailure"

(***************************************************************************)
(* DataEntry and InMemoryVectorStore.                                      *)
(***************************************************************************)
DataEntry(id, name, vector, descriptions) ==
    [id |-> id, name |-> name, vector |-> vector, descriptions |-> descriptions]

\* InMemoryVectorStore::new
new(dimensions, prompt_annotations, prompts, prompt_size) ==
    [data_entries       |-> <<>>,
     prompts            |-> prompts,
     prompt_size        |-> prompt_size,
     prompt_annotations |-> prompt_annotations,
     dimensions         |-> dimensions]

\* a kv_storage whose new id is one more than the largest id held
kv_storage_NextFreeId(self, name, descriptions, vector) ==
    LET held == {self.data_entries[i].id : i \in 1..Len(self.data_entries)}
        current_id == IF held = {} THEN 1
                      ELSE (CHOOSE m \in held : \A h \in held : h <= m) + 1
    IN  [self   |-> [self EXCEPT !.data_entries =
                        Append(@, DataEntry(current_id, name, vector, descriptions))],
         result |-> OK,
         id     |-> current_id]

\* kv_storage: the new id is the current length plus one
kv_storage(self, name, descriptions, vector) ==
    LET current_id == Len(self.data_entries) + 1
    IN  [self   |-> [self EXCEPT !.data_entries =
                        Append(@, DataEntry(current_id, name, vector, descriptions))],
         result |-> OK,
         id     |-> current_id]

\* Iterator::position: the first index whose entry has the id, 0 for None
position(entries, id) ==
    IF \E i \in 1..Len(entries) : entries[i].id = id
    THEN CHOOSE i \in 1..Len(entries) :
            /\ entries[i].id = id
            /\ \A j \in 1..(i - 1) : entries[j].id # id
    ELSE 0

\* Vec::remove(index)
remove(entries, index) ==
    [i \in 1..(Len(entries) - 1) |->
        IF i < index THEN entries[i] ELSE entries[i + 1]]

\* a kv_delete that removes every entry with the id, as Vec::retain would
kv_delete_RetainOthers(self, id) ==
    IF \E i \in 1..Len(self.data_entries) : self.data_entries[i].id = id
    THEN [self   |-> [self EXCEPT !.data_entries =
                         SelectSeq(@, LAMBDA e : e.id # id)],
          result |-> OK]
    ELSE [self |-> self, result |-> NoDataWasFound]

\* kv_delete
kv_delete(self, id) ==
    LET index == position(self.data_entries, id)
    IN  IF index # 0
        THEN [self   |-> [self EXCEPT !.data_entries = remove(@, index)],
              result |-> OK]
        ELSE [self |-> self, result |-> NoDataWasFound]

(***************************************************************************)
(* Cosine similarity.                                                      *)
(***************************************************************************)
Min(a, b) == IF a < b THEN a ELSE b

RECURSIVE SumTo(_, _)
\* f[1] + ... + f[n]
SumTo(f, n) == IF n = 0 THEN 0 ELSE f[n] + SumTo(f, n - 1)

\* a.iter().zip(b.iter()).map(|(x, y)| x * y).sum()
dot_product(a, b) ==
    LET n == Min(Len(a), Len(b))
    IN  SumTo([i \in 1..n |-> a[i] * b[i]], n)

\* the square of the norm: a.iter().map(|x| x * x).sum()
norm_squared(a) == SumTo([i \in 1..Len(a) |-> a[i] * a[i]], Len(a))

\* the score 0.0
Zero == [num |-> 0, den |-> 1]

\* cosine_similarity without its check of a zero norm: the division is made
\* whatever the norms are
cosine_similarity_NoZeroCheck(a, b) ==
    [num |-> dot_product(a, b), den |-> norm_squared(a) * norm_squared(b)]

\* cosine_similarity: the score num / sqrt(den)
cosine_similarity(a, b) ==
    IF norm_squared(a) = 0 \/ norm_squared(b) = 0
    THEN Zero
    ELSE [num |-> dot_product(a, b), den |-> norm_squared(a) * norm_squared(b)]

\* the sign-carrying square of a score, scaled by the other score's den
Signed(x, y) == (IF x.num < 0 THEN -1 ELSE 1) * x.num * x.num * y.den

\* f64::partial_cmp on two scores (no score of the model is NaN)
partial_cmp(x, y) ==
    IF Signed(x, y) < Signed(y, x) THEN "Less"
    ELSE IF Signed(x, y) > Signed(y, x) THEN "Greater"
    ELSE "Equal"

(***************************************************************************)
(* kv_search.                                                              *)
(***************************************************************************)
\* a comparator with its operands exchanged, which sorts ascending
compare_Ascending(a, b) == partial_cmp(a.score, b.score)

\* the comparator of sort_by: |a, b| b.1.partial_cmp(&a.1)
compare(a, b) == partial_cmp(b.score, a.score)

\* an insertion that puts the element ahead of the elements it compares
\* Equal to, as an unstable sort may
Insert_Unstable(sorted, e) ==
    LET before == {i \in 1..Len(sorted) : compare(sorted[i], e) = "Less"}
        cut == IF before = {} THEN 0
               ELSE CHOOSE i \in before : \A j \in before : j <= i
    IN  [i \in 1..(Len(sorted) + 1) |->
            IF i <= cut THEN sorted[i]
            ELSE IF i = cut + 1 THEN e
            ELSE sorted[i - 1]]

\* one element put into a sorted sequence, behind every element that does
\* not compare Greater than it (a stable sort keeps equal elements in order)
Insert(sorted, e) ==
    LET before == {i \in 1..Len(sorted) : compare(sorted[i], e) # "Greater"}
        cut == IF before = {} THEN 0
               ELSE CHOOSE i \in before : \A j \in before : j <= i
    IN  [i \in 1..(Len(sorted) + 1) |->
            IF i <= cut THEN sorted[i]
            ELSE IF i = cut + 1 THEN e
            ELSE sorted[i - 1]]

RECURSIVE sort_by(_)
\* slice::sort_by, a stable sort
sort_by(s) ==
    IF s = <<>> THEN <<>>
    ELSE Insert(sort_by(SubSeq(s, 1, Len(s) - 1)), s[Len(s)])

\* a take that starts behind the first element
take_SkipFirst(s, n) == SubSeq(s, 2, Min(n + 1, Len(s)))

\* Iterator::take
take(s, n) == SubSeq(s, 1, Min(n, Len(s)))

\* kv_search without its check of an empty result
kv_search_NoEmptyCheck(self, query_vector, top_n) ==
    IF self.data_entries = <<>>
    THEN [result |-> NoDataWasFound, entries |-> <<>>, picked |-> <<>>]
    ELSE LET similarities ==
                 [idx \in 1..Len(self.data_entries) |->
                     [idx   |-> idx,
                      score |-> cosine_similarity(query_vector,
                                                  self.data_entries[idx].vector)]]
             taken == take(sort_by(similarities), top_n)
         IN  [result  |-> OK,
              entries |-> [i \in 1..Len(taken) |-> self.data_entries[taken[i].idx]],
              picked  |-> [i \in 1..Len(taken) |-> taken[i].idx]]

\* kv_search: the records it returns and, in `picked`, the position in the
\* record sequence of each of them
kv_search(self, query_vector, top_n) ==
    IF self.data_entries = <<>>
    THEN [result |-> NoDataWasFound, entries |-> <<>>, picked |-> <<>>]
    ELSE LET similarities ==
                 [idx \in 1..Len(self.data_entries) |->
                     [idx   |-> idx,
                      score |-> cosine_similarity(query_vector,
                                                  self.data_entries[idx].vector)]]
             sorted == sort_by(similarities)
             taken == take(sorted, top_n)
             top_entries == [i \in 1..Len(taken) |-> self.data_entries[taken[i].idx]]
         IN  IF top_entries = <<>>
             THEN [result |-> NoDataWasFound, entries |-> <<>>, picked |-> <<>>]
             ELSE [result |-> OK, entries |-> top_entries,
                   picked |-> [i \in 1..Len(taken) |-> taken[i].idx]]

(***************************************************************************)
(* The VectorStore operations of InMemoryVectorStore.  `ok` tells whether  *)
(* the call of the embedding capability (instantiate_client and            *)
(* vectorize_image_concurrently) succeeds.                                 *)
(***************************************************************************)
add(self, name, descriptions, image, ok) ==
    IF ~ok
    THEN [self |-> self, result |-> EmbeddingFailure, id |-> 0]
    ELSE kv_storage(self, name, descriptions, Embed(image))

\* an edit that calls the embedding capability before it looks for the
\* original entry
edit_EmbedsFirst(self, image, data_entry, ok) ==
    IF ~ok
    THEN [self |-> self, result |-> EmbeddingFailure, id |-> 0]
    ELSE LET deleted_first == kv_delete(self, data_entry.id)
         IN  IF deleted_first.result # OK
             THEN [self |-> self, result |-> deleted_first.result, id |-> 0]
             ELSE kv_storage(deleted_first.self, data_entry.name,
                             data_entry.descriptions, Embed(image))

\* edit: delete the original entry first, then store the new one
edit(self, image, data_entry, ok) ==
    LET deleted_first == kv_delete(self, data_entry.id)
    IN  IF deleted_first.result # OK
        THEN [self |-> self, result |-> deleted_first.result, id |-> 0]
        ELSE add(deleted_first.self, data_entry.name, data_entry.descriptions, image, ok)

delete(self, id) == kv_delete(self, id)

search(self, image, top_n, ok) ==
    IF ~ok
    THEN [result |-> EmbeddingFailure, entries |-> <<>>, picked |-> <<>>]
    ELSE kv_search(self, Embed(image), top_n)

(***************************************************************************)
(* State.                                                                  *)
(***************************************************************************)
VARIABLES
    \* a store used directly through the VectorStore trait
    store,      \* one InMemoryVectorStore
    last,       \* the last operation on `store`: its arguments and its result
    deleted,    \* the ids of the records removed from `store` so far
    similarity, \* the last call of cosine_similarity: its vectors, its score
    \* the server: the coordinator, its request handlers and the file
    stores,             \* SharedStores: the clothes and the face store
    shared_stores_lock, \* who holds the Mutex around SharedStores
    store_lock,         \* who holds the Mutex of each store
    pc,                 \* where each request handler stands
    local,              \* the local data of each request handler
    file,               \* the file vector_stores.json
    saved,              \* the stores that the last save wrote in full, if
                        \* no save has truncated the file since
    history             \* "constructed": the stores are as main built them;
                        \* "loaded": as one load into such stores left them;
                        \* "changed": anything else

store_vars == <<store, last, deleted, similarity>>
server_vars ==
    <<stores, shared_stores_lock, store_lock, pc, local, file, saved, history>>
vars == <<store_vars, server_vars>>

\* the concurrent requests of the model
Requests == {"r1", "r2"}
StoreNames == {"clothes", "face"}
\* a lock nobody holds; a local or a snapshot that holds nothing
Free == "free"
None == [kind |-> "none"]
\* what load_prompts may find in the clothes and in the face prompt directory
ClothesPrompts == {<<"c1">>, <<"c2">>}
FacePrompts == {<<"f1">>}

\* initialize_clothes_store, initialize_face_store
initialize_clothes_store(prompts) == new(DIMENSIONS, <<>>, prompts, PROMPT_SIZE)
initialize_face_store(prompts) == new(DIMENSIONS, <<>>, prompts, PROMPT_SIZE)

\* main: the SharedStores value, both stores newly constructed
main(clothes_prompts, face_prompts) ==
    [clothes |-> initialize_clothes_store(clothes_prompts),
     face    |-> initialize_face_store(face_prompts)]

\* the ids a caller may pass
Ids == 1..(MaxEntries + 1)

\* the replacement records a caller may pass to edit (edit ignores the vector)
Replacements ==
    {DataEntry(id, name, <<>>, descriptions) :
        id \in Ids, name \in Names, descriptions \in Descriptions}

NoOp ==
    [op |-> "none", result |-> OK, id |-> 0, before |-> <<>>, new_id |-> 0,
     ok |-> TRUE, query |-> <<>>, top_n |-> 0, entries |-> <<>>,
     picked |-> <<>>, after_add |-> FALSE]

Init ==
    /\ store = new(DIMENSIONS, <<>>, <<"p1">>, PROMPT_SIZE)
    /\ last = NoOp
    /\ deleted = {}
    /\ similarity = [a |-> <<>>, b |-> <<>>, score |-> Zero]
    /\ stores = main(<<"c1">>, <<"f1">>)
    /\ shared_stores_lock = Free
    /\ store_lock = [n \in StoreNames |-> Free]
    /\ pc = [r \in Requests |-> "start"]
    /\ local = [r \in Requests |-> None]
    /\ history = "constructed"
    /\ file = [kind |-> "absent"]
    /\ saved = None

Add(name, descriptions, image, ok) ==
    /\ Len(store.data_entries) < MaxEntries
    /\ LET r == add(store, name, descriptions, image, ok)
       IN  /\ store' = r.self
           /\ last' = [NoOp EXCEPT !.op = "add", !.result = r.result,
                                   !.before = store.data_entries,
                                   !.new_id = r.id, !.ok = ok]
    /\ UNCHANGED <<deleted, similarity, server_vars>>

Delete(id) ==
    /\ LET r == delete(store, id)
       IN  /\ store' = r.self
           /\ last' = [NoOp EXCEPT !.op = "delete", !.result = r.result, !.id = id,
                                   !.before = store.data_entries]
           /\ deleted' = IF r.result = OK THEN deleted \cup {id} ELSE deleted
    /\ UNCHANGED <<similarity, server_vars>>

Edit(image, data_entry, ok) ==
    /\ LET r == edit(store, image, data_entry, ok)
       IN  /\ store' = r.self
           /\ last' = [NoOp EXCEPT !.op = "edit", !.result = r.result,
                                   !.id = data_entry.id,
                                   !.before = store.data_entries,
                                   !.new_id = r.id, !.ok = ok]
           /\ deleted' = IF kv_delete(store, data_entry.id).result = OK
                         THEN deleted \cup {data_entry.id}
                         ELSE deleted
    /\ UNCHANGED <<similarity, server_vars>>

Search(image, top_n, ok) ==
    /\ LET r == search(store, image, top_n, ok)
       IN  last' = [NoOp EXCEPT !.op = "search", !.result = r.result,
                                !.before = store.data_entries, !.ok = ok,
                                \* the query vector and the top_n handed to
                                \* kv_search, when the embedding call succeeded
                                !.query = IF ok THEN Embed(image) ELSE <<>>,
                                !.top_n = IF ok THEN top_n ELSE 0,
                                !.entries = r.entries,
                                !.picked = r.picked,
                                \* whether this search follows a successful
                                \* add immediately
                                !.after_add =
                                    (last.op = "add" /\ last.result = OK)]
    /\ UNCHANGED <<store, deleted, similarity, server_vars>>

Next ==
    \/ \E name \in Names, descriptions \in Descriptions, image \in Uploads,
          ok \in BOOLEAN : Add(name, descriptions, image, ok)
    \/ \E id \in Ids : Delete(id)
    \/ \E image \in Uploads, data_entry \in Replacements, ok \in BOOLEAN :
          Edit(image, data_entry, ok)
    \/ \E image \in Images, top_n \in TopNs, ok \in BOOLEAN :
          Search(image, top_n, ok)

Spec == Init /\ [][Next]_vars

(***************************************************************************)
(* cosine_similarity on its own, called with vectors of any two lengths.   *)
(***************************************************************************)
\* the longest vector of a call
MaxLen == 2
\* the components of a vector
Components == {-1, 0, 1}
Vectors == UNION {[1..n -> Components] : n \in 0..MaxLen}

CosineSimilarity(a, b) ==
    /\ similarity' = [a |-> a, b |-> b, score |-> cosine_similarity(a, b)]
    /\ UNCHANGED <<store, last, deleted, server_vars>>

NextCosine == \E a \in Vectors, b \in Vectors : CosineSimilarity(a, b)

SpecCosine == Init /\ [][NextCosine]_vars

(***************************************************************************)
(* The persisted document.  A JSON object is a record of its members, a   *)
(* JSON array a sequence, and an f64 is written as its decimal text (the  *)
(* integral part and the fraction digits).                                 *)
(***************************************************************************)
\* the text serde_json writes for an f64 of the model, such as -1.0
f64_to_json(x) == [sign |-> IF x < 0 THEN "-" ELSE "", int |-> IF x < 0 THEN -x ELSE x,
                   frac |-> "0"]

\* the f64 a decimal text parses to
f64_from_json(t) == IF t.sign = "-" THEN -t.int ELSE t.int

\* Serialize for DataEntry
DataEntry_to_json(e) ==
    [id           |-> e.id,
     name         |-> e.name,
     vector       |-> [i \in 1..Len(e.vector) |-> f64_to_json(e.vector[i])],
     descriptions |-> e.descriptions]

\* Deserialize for DataEntry
DataEntry_from_json(j) ==
    DataEntry(j.id, j.name,
              [i \in 1..Len(j.vector) |-> f64_from_json(j.vector[i])],
              j.descriptions)

\* Serialize for InMemoryVectorStore: every field, by its name
InMemoryVectorStore_to_json(s) ==
    [data_entries       |-> [i \in 1..Len(s.data_entries) |->
                                DataEntry_to_json(s.data_entries[i])],
     prompt_annotations |-> s.prompt_annotations,
     prompts            |-> s.prompts,
     prompt_size        |-> s.prompt_size,
     dimensions         |-> s.dimensions]

\* Deserialize for InMemoryVectorStore
InMemoryVectorStore_from_json(j) ==
    [data_entries       |-> [i \in 1..Len(j.data_entries) |->
                                DataEntry_from_json(j.data_entries[i])],
     prompts            |-> j.prompts,
     prompt_size        |-> j.prompt_size,
     prompt_annotations |-> j.prompt_annotations,
     dimensions         |-> j.dimensions]

\* struct PersistentStores, built by save from the two locked stores
PersistentStores(clothes, face) == [clothes |-> clothes, face |-> face]

\* serde_json::to_writer(writer, &data): the complete document
to_writer(data) ==
    [clothes |-> InMemoryVectorStore_to_json(data.clothes),
     face    |-> InMemoryVectorStore_to_json(data.face)]

\* serde_json::from_reader(reader) on the content of the file
from_reader(f) ==
    IF f.kind = "document" /\ {"clothes", "face"} \subseteq DOMAIN f.doc
    THEN [ok   |-> TRUE,
          data |-> PersistentStores(InMemoryVectorStore_from_json(f.doc.clothes),
                                    InMemoryVectorStore_from_json(f.doc.face))]
    ELSE [ok |-> FALSE, data |-> None]

(***************************************************************************)
(* The request handlers of routes.rs.  A handler starts at "start", the   *)
(* lock().await of the Mutex around SharedStores, and ends at "respond",  *)
(* where its response is built and its guards are dropped.                 *)
(***************************************************************************)
\* the upload requests: a name and a base64 image that decodes or does not
UploadRequests ==
    {[name |-> "a", image |-> "west"], [name |-> "a", image |-> "not base64"]}
\* the similarity requests
SimilarityRequests ==
    {[user_image |-> i, top_n |-> n] : i \in {"east", "not base64"}, n \in {1}}
\* the {id} path segments of a delete request: numbers, and "-1", which
\* does not parse as a usize
DeletePaths == Ids \cup {-1}

\* decode_base64_image succeeds on the images of the model
decode_base64_image(b64_str) == b64_str \in Images

\* the read-all accessor of a store
get_all(self) == self.data_entries

\* the response a handler builds
Response(handler, status) == [kind |-> "response", handler |-> handler, status |-> status]

\* mutex.lock().await: the request takes the lock once nobody holds it
LockSharedStores(r, next) ==
    /\ pc[r] = "start"
    /\ shared_stores_lock = Free
    /\ shared_stores_lock' = r
    /\ pc' = [pc EXCEPT ![r] = next]
    /\ UNCHANGED <<store_vars, stores, store_lock, local, file, saved, history>>

LockStore(r, at, name, next) ==
    /\ pc[r] = at
    /\ store_lock[name] = Free
    /\ store_lock' = [store_lock EXCEPT ![name] = r]
    /\ pc' = [pc EXCEPT ![r] = next]
    /\ UNCHANGED <<store_vars, stores, shared_stores_lock, local, file, saved, history>>

\* the store guards a request holds are dropped
Unlocked(r) == [n \in StoreNames |-> IF store_lock[n] = r THEN Free ELSE store_lock[n]]

\* ---- upload_clothes
upload_clothes_lock(r) ==
    /\ pc[r] = "start"
    /\ LockSharedStores(r, "upload_lock_clothes")

\* an upload that goes on without the lock of the clothes store
upload_clothes_lock_clothes_Skipped(r) ==
    /\ pc[r] = "upload_lock_clothes"
    /\ pc' = [pc EXCEPT ![r] = "upload_decode"]
    /\ UNCHANGED <<store_vars, stores, shared_stores_lock, store_lock, local,
                   file, saved, history>>

upload_clothes_lock_clothes(r) ==
    /\ pc[r] = "upload_lock_clothes"
    /\ LockStore(r, "upload_lock_clothes", "clothes", "upload_decode")

\* decode_base64_image; on success add() starts and awaits the embedding
upload_clothes_decode(r, request) ==
    /\ pc[r] = "upload_decode"
    /\ IF decode_base64_image(request.image)
       THEN /\ pc' = [pc EXCEPT ![r] = "upload_add"]
            /\ local' = [local EXCEPT ![r] = request]
       ELSE /\ pc' = [pc EXCEPT ![r] = "respond"]
            /\ local' = [local EXCEPT ![r] = Response("upload_clothes", 400)]
    /\ UNCHANGED <<store_vars, stores, shared_stores_lock, store_lock, file, saved, history>>

\* the embedding call returns and add() finishes
upload_clothes_add(r, ok) ==
    /\ pc[r] = "upload_add"
    /\ ok => Len(stores.clothes.data_entries) < MaxEntries
    /\ LET res == add(stores.clothes, local[r].name, <<"">>, local[r].image, ok)
       IN  /\ stores' = [stores EXCEPT !.clothes = res.self]
           /\ local' = [local EXCEPT ![r] =
                 Response("upload_clothes", IF res.result = OK THEN 200 ELSE 500)]
           /\ history' = (IF res.self = stores.clothes THEN history ELSE "changed")
    /\ pc' = [pc EXCEPT ![r] = "respond"]
    /\ UNCHANGED <<store_vars, shared_stores_lock, store_lock, file, saved>>

\* ---- get_clothes
get_clothes_lock(r) ==
    /\ pc[r] = "start"
    /\ LockSharedStores(r, "get_lock_clothes")

get_clothes_lock_clothes(r) ==
    /\ pc[r] = "get_lock_clothes"
    /\ LockStore(r, "get_lock_clothes", "clothes", "get_all")

get_clothes_get_all(r) ==
    /\ pc[r] = "get_all"
    /\ pc' = [pc EXCEPT ![r] = "respond"]
    /\ local' = [local EXCEPT ![r] =
          [kind |-> "response", handler |-> "get_clothes", status |-> 200,
           data |-> get_all(stores.clothes)]]
    /\ UNCHANGED <<store_vars, stores, shared_stores_lock, store_lock, file, saved, history>>

\* ---- delete_clothes
delete_clothes_lock(r) ==
    /\ pc[r] = "start"
    /\ LockSharedStores(r, "delete_lock_clothes")

delete_clothes_lock_clothes(r) ==
    /\ pc[r] = "delete_lock_clothes"
    /\ LockStore(r, "delete_lock_clothes", "clothes", "delete_parse")

\* id.parse::<usize>() and, on success, delete
delete_clothes_delete(r, id) ==
    /\ pc[r] = "delete_parse"
    /\ IF id \in Nat
       THEN LET res == delete(stores.clothes, id)
            IN  /\ stores' = [stores EXCEPT !.clothes = res.self]
                /\ local' = [local EXCEPT ![r] =
                      Response("delete_clothes", IF res.result = OK THEN 200 ELSE 404)]
                /\ history' = (IF res.self = stores.clothes THEN history
                                ELSE "changed")
       ELSE /\ local' = [local EXCEPT ![r] = Response("delete_clothes", 400)]
            /\ UNCHANGED <<stores, history>>
    /\ pc' = [pc EXCEPT ![r] = "respond"]
    /\ UNCHANGED <<store_vars, shared_stores_lock, store_lock, file, saved>>

\* ---- calculate_similarity
calculate_similarity_lock(r) ==
    /\ pc[r] = "start"
    /\ LockSharedStores(r, "similarity_lock_clothes")

calculate_similarity_lock_clothes(r) ==
    /\ pc[r] = "similarity_lock_clothes"
    /\ LockStore(r, "similarity_lock_clothes", "clothes", "similarity_decode")

\* decode_base64_image; on success search() starts and awaits the embedding
calculate_similarity_decode(r, request) ==
    /\ pc[r] = "similarity_decode"
    /\ IF decode_base64_image(request.user_image)
       THEN /\ pc' = [pc EXCEPT ![r] = "similarity_search"]
            /\ local' = [local EXCEPT ![r] = request]
       ELSE /\ pc' = [pc EXCEPT ![r] = "respond"]
            /\ local' = [local EXCEPT ![r] = Response("calculate_similarity", 400)]
    /\ UNCHANGED <<store_vars, stores, shared_stores_lock, store_lock, file, saved, history>>

\* the embedding call returns and search() finishes
calculate_similarity_search(r, ok) ==
    /\ pc[r] = "similarity_search"
    /\ LET res == search(stores.clothes, local[r].user_image, local[r].top_n, ok)
       IN  local' = [local EXCEPT ![r] =
              [kind |-> "response", handler |-> "calculate_similarity",
               status |-> IF res.result = OK THEN 200 ELSE 500,
               data |-> res.entries]]
    /\ pc' = [pc EXCEPT ![r] = "respond"]
    /\ UNCHANGED <<store_vars, stores, shared_stores_lock, store_lock, file, saved, history>>

\* ---- save_store and SharedStores::save
save_store_lock(r) ==
    /\ pc[r] = "start"
    /\ LockSharedStores(r, "save_lock_clothes")

save_lock_clothes(r) ==
    /\ pc[r] = "save_lock_clothes"
    /\ LockStore(r, "save_lock_clothes", "clothes", "save_lock_face")

save_lock_face(r) ==
    /\ pc[r] = "save_lock_face"
    /\ LockStore(r, "save_lock_face", "face", "save_clone_clothes")

\* a save whose guards do not outlive the clone of the clothes store
save_clone_clothes_DropsGuards(r) ==
    /\ pc[r] = "save_clone_clothes"
    /\ local' = [local EXCEPT ![r] = [clothes |-> stores.clothes]]
    /\ pc' = [pc EXCEPT ![r] = "save_clone_face"]
    /\ store_lock' = Unlocked(r)
    /\ shared_stores_lock' = Free
    /\ UNCHANGED <<store_vars, stores, file, saved, history>>

\* a save that moves the records out of the clothes store where it is to
\* clone them
save_clone_clothes_TakesRecords(r) ==
    /\ pc[r] = "save_clone_clothes"
    /\ local' = [local EXCEPT ![r] = [clothes |-> stores.clothes]]
    /\ stores' = [stores EXCEPT !.clothes.data_entries = <<>>]
    /\ pc' = [pc EXCEPT ![r] = "save_clone_face"]
    /\ UNCHANGED <<store_vars, shared_stores_lock, store_lock, file, saved,
                   history>>

\* clothes: clothes.clone()
save_clone_clothes(r) ==
    /\ pc[r] = "save_clone_clothes"
    /\ local' = [local EXCEPT ![r] = [clothes |-> stores.clothes]]
    /\ pc' = [pc EXCEPT ![r] = "save_clone_face"]
    /\ UNCHANGED <<store_vars, stores, shared_stores_lock, store_lock, file,
                   saved, history>>

\* face: face.clone(), which completes `data`
save_clone_face(r) ==
    /\ pc[r] = "save_clone_face"
    /\ local' = [local EXCEPT ![r] =
          PersistentStores(local[r].clothes, stores.face)]
    /\ pc' = [pc EXCEPT ![r] = "save_create"]
    /\ UNCHANGED <<store_vars, stores, shared_stores_lock, store_lock, file,
                   saved, history>>

\* File::create truncates the file, or fails and leaves it alone
save_create(r, created) ==
    /\ pc[r] = "save_create"
    /\ IF created
       THEN /\ file' = [kind |-> "empty"]
            /\ saved' = None
            /\ pc' = [pc EXCEPT ![r] = "save_write"]
            /\ UNCHANGED <<store_lock, local>>
       ELSE /\ local' = [local EXCEPT ![r] = Response("save_store", 500)]
            /\ pc' = [pc EXCEPT ![r] = "respond"]
            /\ store_lock' = Unlocked(r)
            /\ UNCHANGED <<file, saved>>
    /\ UNCHANGED <<store_vars, stores, shared_stores_lock, history>>

\* serde_json::to_writer through the BufWriter: the whole document reaches
\* the file ("written"), a write fails midway ("failed"), or the last flush,
\* made when the BufWriter is dropped, fails and its error is ignored
\* ("lost"); save returns and drops both store guards
save_write(r, outcome) ==
    /\ pc[r] = "save_write"
    /\ IF outcome = "written"
       THEN /\ file' = [kind |-> "document", doc |-> to_writer(local[r])]
            /\ saved' = local[r]
       ELSE /\ file' = [kind |-> "partial"]
            /\ saved' = None
    /\ local' = [local EXCEPT ![r] =
          Response("save_store", IF outcome = "failed" THEN 500 ELSE 200)]
    /\ pc' = [pc EXCEPT ![r] = "respond"]
    /\ store_lock' = Unlocked(r)
    /\ UNCHANGED <<store_vars, stores, shared_stores_lock, history>>

\* ---- load_store and SharedStores::load
load_store_lock(r) ==
    /\ pc[r] = "start"
    /\ LockSharedStores(r, "load_open")

\* a load that fills each store as soon as it has read that store, before
\* it knows that the document is complete
load_open_AssignsEarly(r) ==
    /\ pc[r] = "load_open"
    /\ LET parsed == from_reader(file)
       IN  IF file.kind # "absent" /\ parsed.ok
           THEN /\ local' = [local EXCEPT ![r] = parsed.data]
                /\ pc' = [pc EXCEPT ![r] = "load_lock_clothes"]
                /\ UNCHANGED stores
           ELSE /\ local' = [local EXCEPT ![r] = Response("load_store", 500)]
                /\ pc' = [pc EXCEPT ![r] = "respond"]
                /\ stores' =
                      IF file.kind = "document" /\ "clothes" \in DOMAIN file.doc
                      THEN [stores EXCEPT !.clothes =
                               InMemoryVectorStore_from_json(file.doc.clothes)]
                      ELSE stores
    /\ UNCHANGED <<store_vars, shared_stores_lock, store_lock, file, saved, history>>

\* File::open and serde_json::from_reader, before any store is locked
load_open(r) ==
    /\ pc[r] = "load_open"
    /\ LET parsed == from_reader(file)
       IN  IF file.kind # "absent" /\ parsed.ok
           THEN /\ local' = [local EXCEPT ![r] = parsed.data]
                /\ pc' = [pc EXCEPT ![r] = "load_lock_clothes"]
           ELSE /\ local' = [local EXCEPT ![r] = Response("load_store", 500)]
                /\ pc' = [pc EXCEPT ![r] = "respond"]
    /\ UNCHANGED <<store_vars, stores, shared_stores_lock, store_lock, file, saved, history>>

\* a load that locks the face store where it is to lock the clothes store
load_lock_clothes_FaceFirst(r) ==
    /\ pc[r] = "load_lock_clothes"
    /\ LockStore(r, "load_lock_clothes", "face", "load_lock_face")

load_lock_clothes(r) ==
    /\ pc[r] = "load_lock_clothes"
    /\ LockStore(r, "load_lock_clothes", "clothes", "load_lock_face")

load_lock_face(r) ==
    /\ pc[r] = "load_lock_face"
    /\ LockStore(r, "load_lock_face", "face", "load_assign")

\* a load that assigns each store the other store's data
load_assign_Swapped(r) ==
    /\ pc[r] = "load_assign"
    /\ stores' = [clothes |-> local[r].face, face |-> local[r].clothes]
    /\ local' = [local EXCEPT ![r] = Response("load_store", 200)]
    /\ pc' = [pc EXCEPT ![r] = "respond"]
    /\ store_lock' = Unlocked(r)
    /\ history' = (IF history = "constructed" THEN "loaded" ELSE "changed")
    /\ UNCHANGED <<store_vars, shared_stores_lock, file, saved>>

\* *clothes = data.clothes; *face = data.face; load returns and drops both
\* store guards
load_assign(r) ==
    /\ pc[r] = "load_assign"
    /\ stores' = [clothes |-> local[r].clothes, face |-> local[r].face]
    /\ local' = [local EXCEPT ![r] = Response("load_store", 200)]
    /\ pc' = [pc EXCEPT ![r] = "respond"]
    /\ store_lock' = Unlocked(r)
    /\ history' = (IF history = "constructed" THEN "loaded" ELSE "changed")
    /\ UNCHANGED <<store_vars, shared_stores_lock, file, saved>>

\* an end of the handler that leaks the store guards it holds
respond_KeepsStoreLock(r) ==
    /\ pc[r] = "respond"
    /\ shared_stores_lock' = Free
    /\ local' = [local EXCEPT ![r] = None]
    /\ pc' = [pc EXCEPT ![r] = "start"]
    /\ UNCHANGED <<store_vars, stores, store_lock, file, saved, history>>

\* ---- the end of every handler: the response is returned and the guards
\* the handler still holds are dropped (the store guard, then the guard of
\* the Mutex around SharedStores)
respond(r) ==
    /\ pc[r] = "respond"
    /\ store_lock' = Unlocked(r)
    /\ shared_stores_lock' = Free
    /\ local' = [local EXCEPT ![r] = None]
    /\ pc' = [pc EXCEPT ![r] = "start"]
    /\ UNCHANGED <<store_vars, stores, file, saved, history>>

\* ---- the file that load opens is what anyone has left at its path: here
\* a document, put there from outside the server, that lacks a store
FilesFromOutside ==
    {[kind |-> "document",
      doc  |-> [clothes |-> InMemoryVectorStore_to_json(
                                initialize_clothes_store(<<"c1">>))]]}

replace_file(f) ==
    /\ file # f
    /\ file' = f
    /\ UNCHANGED <<store_vars, stores, shared_stores_lock, store_lock, pc,
                   local, saved, history>>

\* ---- the process ends (at any point, also in the middle of a save) and
\* main runs again: new stores, new locks, the file as it was left
restart(clothes_prompts, face_prompts) ==
    /\ stores' = main(clothes_prompts, face_prompts)
    /\ shared_stores_lock' = Free
    /\ store_lock' = [n \in StoreNames |-> Free]
    /\ pc' = [r \in Requests |-> "start"]
    /\ local' = [r \in Requests |-> None]
    /\ history' = "constructed"
    /\ UNCHANGED <<store_vars, file, saved>>

NextServer ==
    \/ \E r \in Requests : upload_clothes_lock(r)
    \/ \E r \in Requests : upload_clothes_lock_clothes(r)
    \/ \E r \in Requests, request \in UploadRequests : upload_clothes_decode(r, request)
    \/ \E r \in Requests, ok \in BOOLEAN : upload_clothes_add(r, ok)
    \/ \E r \in Requests : get_clothes_lock(r)
    \/ \E r \in Requests : get_clothes_lock_clothes(r)
    \/ \E r \in Requests : get_clothes_get_all(r)
    \/ \E r \in Requests : delete_clothes_lock(r)
    \/ \E r \in Requests : delete_clothes_lock_clothes(r)
    \/ \E r \in Requests, id \in DeletePaths : delete_clothes_delete(r, id)
    \/ \E r \in Requests : calculate_similarity_lock(r)
    \/ \E r \in Requests : calculate_similarity_lock_clothes(r)
    \/ \E r \in Requests, request \in SimilarityRequests :
          calculate_similarity_decode(r, request)
    \/ \E r \in Requests, ok \in BOOLEAN : calculate_similarity_search(r, ok)
    \/ \E r \in Requests : save_store_lock(r)
    \/ \E r \in Requests : save_lock_clothes(r)
    \/ \E r \in Requests : save_lock_face(r)
    \/ \E r \in Requests : save_clone_clothes(r)
    \/ \E r \in Requests : save_clone_face(r)
    \/ \E r \in Requests, created \in BOOLEAN : save_create(r, created)
    \/ \E r \in Requests, outcome \in {"written", "failed", "lost"} :
          save_write(r, outcome)
    \/ \E r \in Requests : load_store_lock(r)
    \/ \E r \in Requests : load_open(r)
    \/ \E r \in Requests : load_lock_clothes(r)
    \/ \E r \in Requests : load_lock_face(r)
    \/ \E r \in Requests : load_assign(r)
    \/ \E r \in Requests : respond(r)
    \/ \E f \in FilesFromOutside : replace_file(f)
    \/ \E clothes_prompts \in ClothesPrompts, face_prompts \in FacePrompts :
          restart(clothes_prompts, face_prompts)

SpecServer == Init /\ [][NextServer]_vars

\* the steps of a request whose handler is under way: every lock().await
\* but the first, every call that returns and the response
Continue(r) ==
    \/ upload_clothes_lock_clothes(r)
    \/ \E request \in UploadRequests : upload_clothes_decode(r, request)
    \/ \E ok \in BOOLEAN : upload_clothes_add(r, ok)
    \/ get_clothes_lock_clothes(r)
    \/ get_clothes_get_all(r)
    \/ delete_clothes_lock_clothes(r)
    \/ \E id \in DeletePaths : delete_clothes_delete(r, id)
    \/ calculate_similarity_lock_clothes(r)
    \/ \E request \in SimilarityRequests : calculate_similarity_decode(r, request)
    \/ \E ok \in BOOLEAN : calculate_similarity_search(r, ok)
    \/ save_lock_clothes(r)
    \/ save_lock_face(r)
    \/ save_clone_clothes(r)
    \/ save_clone_face(r)
    \/ \E created \in BOOLEAN : save_create(r, created)
    \/ \E outcome \in {"written", "failed", "lost"} : save_write(r, outcome)
    \/ load_open(r)
    \/ load_lock_clothes(r)
    \/ load_lock_face(r)
    \/ load_assign(r)
    \/ respond(r)

\* the server whose embedding calls and file operations return and whose
\* locks are granted to the request that waits for them
SpecServerFair ==
    Init /\ [][NextServer]_vars /\ \A r \in Requests : WF_vars(Continue(r))

(***************************************************************************)
(* Properties of the store (specification Spec).                           *)
(***************************************************************************)
\* no two records of a record sequence hold the same id
UniqueIds(entries) ==
    \A i, j \in 1..Len(entries) : entries[i].id = entries[j].id => i = j

\* the similarity of a returned record to the query of the last search
ScoreOf(entry) == cosine_similarity(last.query, entry.vector)

\* C1: after any sequence of add, delete and edit operations on a store that
\* started empty, no two records of the store hold the same id.
C1_UniqueIds == UniqueIds(store.data_entries)

\* C2: an edit of an existing record whose embedding call fails returns the
\* error and leaves the record sequence as it was before the call.
C2_FailedEditKeepsStore ==
    (/\ last.op = "edit"
     /\ position(last.before, last.id) # 0
     /\ ~last.ok)
    => (last.result = EmbeddingFailure /\ store.data_entries = last.before)

\* C6: a successful delete(id) removes exactly one record, and a delete(id)
\* with the same id issued immediately afterwards fails with NotFound.
C6_DeleteTwice ==
    [][/\ (last'.op = "delete" /\ last'.result = OK)
            => Len(store'.data_entries) = Len(store.data_entries) - 1
       /\ (/\ last.op = "delete" /\ last.result = OK
           /\ last'.op = "delete" /\ last'.id = last.id)
            => last'.result = NoDataWasFound]_vars

\* C7: once a record with id i has been deleted, no later add or edit assigns
\* id i to a new record.
C7_NoIdReuse ==
    [][(last'.op \in {"add", "edit"} /\ last'.result = OK)
            => last'.new_id \notin deleted]_vars

\* C8: after a successful edit targeting an existing id i, the replacement
\* record carries an id different from i.
C8_EditAssignsNewId ==
    (last.op = "edit" /\ last.result = OK) => last.new_id # last.id

\* C9: a successful search on a non-empty store returns at most top_n
\* records, and their similarity scores to the query are non-increasing
\* along the returned list.
C9_SearchBoundedAndSorted ==
    (last.op = "search" /\ last.result = OK) =>
        /\ Len(last.entries) <= last.top_n
        /\ \A i \in 1..(Len(last.entries) - 1) :
              partial_cmp(ScoreOf(last.entries[i]), ScoreOf(last.entries[i + 1]))
                  # "Less"

\* a search reached the ranking of two or more records with different
\* scores and returned more than one of them
C9_Witness ==
    /\ last.op = "search" /\ last.result = OK
    /\ Len(last.entries) = 2
    /\ Len(last.before) = 2
    /\ partial_cmp(ScoreOf(last.before[1]), ScoreOf(last.before[2])) = "Less"

C11_SearchAfterDeleteIsEmptyOk ==
    (/\ last.op = "search" /\ last.ok /\ last.top_n = 1
     /\ last.before = <<>> /\ deleted # {})
    => (last.result = OK /\ last.entries = <<>>)

\* the record that the add before the last search appended
Added == last.before[Len(last.before)]

\* the last search followed a successful add immediately, with the raw input
\* of that add (the embedding is deterministic), a non-zero embedding and
\* top_n >= 1
SearchedWhatWasAdded ==
    /\ last.op = "search" /\ last.after_add /\ last.ok
    /\ last.top_n >= 1
    /\ last.query = Added.vector
    /\ norm_squared(last.query) # 0

\* C12 as stated: a successful add(name, descriptions, x), x of non-zero
\* embedding, followed immediately by search(x, n) with any n >= 1 returns a
\* list that contains the record just added; for n = 1 on a store holding
\* only that record, it is the first result.
C12_AddThenSearchFindsAdded ==
    SearchedWhatWasAdded =>
        /\ last.result = OK
        /\ \E k \in 1..Len(last.entries) : last.entries[k] = Added
        /\ (last.top_n = 1 /\ Len(last.before) = 1) => last.entries[1] = Added

\* C12, amended: such a search succeeds and returns the record just added,
\* or else top_n records inserted before it whose similarity to x equals
\* its own; it returns the record just added whenever top_n is at least the
\* number of records of the store, and as the first result when the store
\* holds only that record.
C12_AddThenSearchFindsAddedOrTies ==
    SearchedWhatWasAdded =>
        /\ last.result = OK
        /\ \/ \E k \in 1..Len(last.entries) : last.entries[k] = Added
           \/ /\ Len(last.entries) = last.top_n
              /\ \A k \in 1..Len(last.entries) :
                    /\ last.picked[k] < Len(last.before)
                    /\ partial_cmp(ScoreOf(last.entries[k]), ScoreOf(Added))
                           = "Equal"
        /\ last.top_n >= Len(last.before)
              => \E k \in 1..Len(last.entries) : last.entries[k] = Added
        /\ Len(last.before) = 1 => last.entries[1] = Added

\* a search with top_n = 1 right after an add returned an older record of
\* the same similarity instead of the record just added
C12_Witness ==
    /\ SearchedWhatWasAdded
    /\ last.top_n = 1 /\ last.result = OK
    /\ last.entries[1] # Added
    /\ last.picked = <<1>>

\* C13: ranking is stable: of two stored records with equal similarity to
\* the query, the one that sits earlier in the record sequence appears
\* earlier in the result when both are returned, and is the one returned
\* when only one of them fits within top_n.
C13_StableRanking ==
    (last.op = "search" /\ last.result = OK) =>
        /\ Len(last.picked) = Len(last.entries)
        /\ \A k \in 1..Len(last.picked) :
              last.entries[k] = last.before[last.picked[k]]
        /\ \A i, j \in 1..Len(last.before) :
              (/\ i < j
               /\ partial_cmp(ScoreOf(last.before[i]), ScoreOf(last.before[j]))
                      = "Equal"
               /\ \E kj \in 1..Len(last.picked) : last.picked[kj] = j)
              => \E ki, kj \in 1..Len(last.picked) :
                    /\ last.picked[ki] = i
                    /\ last.picked[kj] = j
                    /\ ki < kj

\* a search ranked two records of equal, non-zero similarity and returned
\* them both, the older one first
C13_Witness ==
    /\ last.op = "search" /\ last.result = OK
    /\ Len(last.before) = 2
    /\ ScoreOf(last.before[1]) # Zero
    /\ partial_cmp(ScoreOf(last.before[1]), ScoreOf(last.before[2])) = "Equal"
    /\ last.picked = <<1, 2>>

\* C19: delete(id) with an id that no record holds fails with NotFound and
\* leaves the record sequence unchanged; edit with a target id that no
\* record holds fails with NotFound before the embedding capability is
\* called (so whether or not that call would fail) and leaves the store
\* unchanged.
C19_MissingIdIsNotFound ==
    (/\ last.op \in {"delete", "edit"}
     /\ position(last.before, last.id) = 0)
    => (last.result = NoDataWasFound /\ store.data_entries = last.before)

\* an edit of an id that no record of a non-empty store holds, its embedding
\* call bound to fail, failed with NotFound
C19_Witness ==
    /\ last.op = "edit" /\ ~last.ok
    /\ last.before # <<>>
    /\ position(last.before, last.id) = 0
    /\ last.result = NoDataWasFound

C22_DeleteRemovesFirstOnly ==
    (last.op = "delete" /\ last.result = OK) =>
        /\ Len(store.data_entries) = Len(last.before) - 1
        /\ \E p \in 1..Len(last.before) :
              /\ last.before[p].id = last.id
              /\ \A j \in 1..(p - 1) :
                    /\ last.before[j].id # last.id
                    /\ store.data_entries[j] = last.before[j]
              /\ \A j \in (p + 1)..Len(last.before) :
                    store.data_entries[j - 1] = last.before[j]

\* a delete of an id that two records held removed the first of them and
\* kept the second
C22_Witness ==
    /\ last.op = "delete" /\ last.result = OK
    /\ Len(last.before) = 2
    /\ last.before[1].id = last.id /\ last.before[2].id = last.id
    /\ store.data_entries = <<last.before[2]>>

(***************************************************************************)
(* Properties of cosine_similarity (specification SpecCosine).             *)
(***************************************************************************)
\* C20: cosine similarity returns 0 whenever the query vector or the
\* candidate vector has norm zero (all its components zero), for vectors of
\* any length, and no call divides by zero.
C20_ZeroNormScoresZero ==
    /\ (norm_squared(similarity.a) = 0 \/ norm_squared(similarity.b) = 0)
           => similarity.score = Zero
    /\ similarity.score.den # 0

\* cosine_similarity was called with an all-zero vector of two components
\* and a non-zero vector of one
C20_Witness ==
    /\ similarity.a = <<0, 0>>
    /\ similarity.b = <<1>>
    /\ similarity.score = Zero

(***************************************************************************)
(* Properties of the server (specification SpecServer).                    *)
(***************************************************************************)
\* request r holds the clothes lock and is inside its operation on the
\* clothes store (add, with its embedding call, get_all, delete or search)
InClothesOperation(r) ==
    /\ store_lock["clothes"] = r
    /\ pc[r] \in {"upload_decode", "upload_add", "get_all", "delete_parse",
                  "similarity_decode", "similarity_search"}

\* request r has just been answered that its load succeeded
LoadSucceeded(r) == pc[r] = "respond" /\ local[r] = Response("load_store", 200)

\* C3: operations on different stores never block each other: a request in
\* the middle of an operation on the clothes store holds no lock that a
\* request for the face store has to take (the Mutex around SharedStores,
\* through which the face handle is reached, and the face Mutex).
C3_ClothesOperationLeavesFaceFree ==
    \A r \in Requests :
        InClothesOperation(r) =>
            (shared_stores_lock # r /\ store_lock["face"] # r)

\* C4: save writes the document atomically: at every moment the file holds
\* a complete document (the previous or the new one), never an empty or a
\* partial one.
C4_FileNeverPartial == file.kind \in {"absent", "document"}

Wanted(r) ==
    IF pc[r] = "start" THEN "shared_stores"
    ELSE IF pc[r] \in {"upload_lock_clothes", "get_lock_clothes",
                       "delete_lock_clothes", "similarity_lock_clothes",
                       "save_lock_clothes", "load_lock_clothes"}
         THEN "clothes"
    ELSE IF pc[r] \in {"save_lock_face", "load_lock_face"} THEN "face"
    ELSE "none"

\* who holds a lock
Holder(lock) ==
    IF lock = "shared_stores" THEN shared_stores_lock ELSE store_lock[lock]

\* request r waits for a lock that is held
Blocked(r) == Wanted(r) # "none" /\ Holder(Wanted(r)) # Free

\* C14: no deadlock is reachable: locks are taken in the order coordinator
\* lock, clothes, face (who holds a store lock holds the coordinator lock,
\* who holds the face lock holds the clothes lock, and nobody waits for a
\* lock that comes before one it holds), and whoever holds the lock that a
\* request waits for is another request that is not itself waiting.
C14_NoDeadlock ==
    /\ \A n \in StoreNames :
          store_lock[n] # Free => shared_stores_lock = store_lock[n]
    /\ store_lock["face"] # Free => store_lock["clothes"] = store_lock["face"]
    /\ \A r \in Requests :
          /\ Wanted(r) = "shared_stores"
                => \A n \in StoreNames : store_lock[n] # r
          /\ Wanted(r) = "clothes" => store_lock["face"] # r
          /\ Blocked(r) =>
                /\ Holder(Wanted(r)) # r
                /\ ~Blocked(Holder(Wanted(r)))

\* a request waits for the coordinator lock while the request that holds it
\* holds the clothes lock and is about to take the face lock
C14_Witness ==
    \E r, h \in Requests :
        /\ Blocked(r) /\ Holder(Wanted(r)) = h
        /\ pc[h] = "save_lock_face"
        /\ store_lock["clothes"] = h /\ store_lock["face"] = Free

\* C15: the coordinator lock is held only while a store handle is handed
\* out: no request holds it while it is inside a call of the embedding
\* capability (an add or a search in progress).
C15_NoSharedLockDuringEmbedding ==
    \A r \in Requests :
        pc[r] \in {"upload_add", "similarity_search"} => shared_stores_lock # r

\* request r is between the start and the end of an operation on the named
\* store: add (with its embedding call), delete, search, the read-all
\* accessor, the clones of save, the assignments of load
AtOperation(r, name) ==
    \/ /\ name = "clothes"
       /\ pc[r] \in {"upload_add", "get_all", "delete_parse",
                     "similarity_search", "save_clone_clothes"}
    \/ /\ name = "face"
       /\ pc[r] = "save_clone_face"
    \/ pc[r] = "load_assign"

\* C16: within one store the operations are mutually exclusive: at most one
\* request at a time is inside an operation on that store, and that
\* request holds the store's lock, which it took before the operation
\* started and keeps until the operation has finished.
C16_OperationsExclusive ==
    \A n \in StoreNames :
        /\ \A r \in Requests : AtOperation(r, n) => store_lock[n] = r
        /\ \A r1, r2 \in Requests :
              (AtOperation(r1, n) /\ AtOperation(r2, n)) => r1 = r2

\* a request is inside add, its embedding call pending, while the other
\* request has a handler under way
C16_Witness ==
    \E r1, r2 \in Requests :
        /\ r1 # r2
        /\ pc[r1] = "upload_add" /\ AtOperation(r1, "clothes")
        /\ Blocked(r2)
        /\ stores.clothes.data_entries # <<>>

\* C17: the document that save produces is a consistent snapshot: nothing
\* takes effect on either store between the copy of clothes and the copy of
\* face, so that the two states of `data` are those of one single instant.
C17_SaveSnapshotConsistent ==
    \A r \in Requests :
        /\ pc[r] = "save_clone_face" => local[r].clothes = stores.clothes
        /\ pc[r] = "save_create"
              => local[r] = PersistentStores(stores.clothes, stores.face)

\* a save has copied a clothes store that holds a record and is about to
\* copy face, while the other request waits
C17_Witness ==
    \E r1, r2 \in Requests :
        /\ pc[r1] = "save_clone_face"
        /\ local[r1].clothes.data_entries # <<>>
        /\ Blocked(r2)

\* C18: a load that fails, because the file cannot be opened or because the
\* document is malformed or lacks a store, returns an error and leaves both
\* stores as they were before the call: while a load is under way the
\* stores change in one step only, the one that replaces both of them and
\* ends the load with success.
C18_FailedLoadKeepsStores ==
    [][\A r \in Requests :
          (/\ pc[r] \in {"load_open", "load_lock_clothes", "load_lock_face",
                         "load_assign"}
           /\ pc'[r] # "start")
          => /\ local'[r] = Response("load_store", 500) => stores' = stores
             /\ stores' # stores =>
                   /\ local'[r] = Response("load_store", 200)
                   /\ stores' = [clothes |-> local[r].clothes,
                                 face    |-> local[r].face]]_vars

\* a load of a document that lacks the face store failed while the clothes
\* store held a record
C18_Witness ==
    \E r \in Requests :
        /\ pc[r] = "respond" /\ local[r] = Response("load_store", 500)
        /\ file.kind = "document" /\ "face" \notin DOMAIN file.doc
        /\ stores.clothes.data_entries # <<>>

\* the steps of search, of the read-all accessor and of save, from the lock
\* of the store to the response
ReadOnlyStages ==
    {"similarity_lock_clothes", "similarity_decode", "similarity_search",
     "get_lock_clothes", "get_all",
     "save_lock_clothes", "save_lock_face", "save_clone_clothes",
     "save_clone_face", "save_create", "save_write"}

\* C23: search, the read-all accessor and save are read-only: whether they
\* succeed or fail, no step of theirs changes the record sequence or the
\* configuration of either store.
C23_ReadOnlyOperations ==
    [][\A r \in Requests :
          (/\ pc[r] \in ReadOnlyStages
           /\ pc'[r] # pc[r]
           /\ pc'[r] # "start")
          => stores' = stores]_vars

\* a save failed, or a search failed, on a clothes store that holds a record
C23_Witness ==
    \E r \in Requests :
        /\ pc[r] = "respond"
        /\ local[r].handler \in {"save_store", "calculate_similarity"}
        /\ local[r].status = 500
        /\ stores.clothes.data_entries # <<>>

\* request r holds no lock
HoldsNoLock(r) ==
    /\ shared_stores_lock # r
    /\ \A n \in StoreNames : store_lock[n] # r

====
